---- MODULE Spec2Model ----
(***************************************************************************)
(* A model of the vesicle-detection evaluation and tiled-inference code:   *)
(*   score_prediction   src/src/processing/post_processing/                *)
(*                      score_prediction.py                                *)
(*   Prediction         src/src/processing/predict.py                      *)
(*   EMData             src/src/data_loader.py                             *)
(*   Run.run_training   src/run.py                                         *)
(*                                                                         *)
(* Floating-point values are modelled as exact fractions <<num, den>> in   *)
(* lowest terms with den > 0; the not-a-number value is <<0, 0>>.          *)
(* Arrays are functions from 1-based voxel coordinates <<z, y, x>> to      *)
(* integer labels, together with their shape.                              *)
(***************************************************************************)
EXTENDS Integers, Sequences, FiniteSets, TLC

VARIABLES
    \* ---- score_prediction(pred, target) ----
    target,            \* the ground-truth array: [shape, data, attrs]
    pred,              \* the prediction array: [shape, data]
    pc,                \* "idle" | "call" | "returned" | "raised"
    error,             \* the exception raised, "none" when none
    gt_data,           \* the (cropped) ground truth: [shape, data]
    label_ids,         \* the sorted sequence of scored labels
    detection_scores,  \* label -> <<tp, fp, fn>> as the matcher returned them
    scores,            \* the report: key -> value
    \* ---- Prediction.__init__(data, model, input_shape) ----
    raw_shape,         \* data.raw_data.shape, 3 or 4 axes
    voxel_size,        \* data.voxel_size
    input_shape,       \* the requested input tile shape
    model,             \* the detection model: [loss], the voxels of context a
                       \* forward pass removes along each axis
    ppc,               \* "idle" | "new" | "ready" | "raised"
    P,                 \* the fields of the Prediction object
    perror,            \* the exception __init__ raised, "none" when none
    \* ---- Prediction.predict_pipeline() ----
    qpc,               \* "idle" | "scanning" | "returned" | "raised"
    scan_request,      \* the request of one tile: [raw, prediction], two ROIs
    total_request,     \* the request of the whole scan: [raw, prediction]
    shifts,            \* the offsets of the tiles, in the order of the scan
    done,              \* the number of tiles the model has evaluated
    writes,            \* voxel of the requested prediction -> the number of
                       \* tiles that wrote it
    ret,               \* the returned batch: [raw, prediction], two shapes
    \* ---- EMData.__init__(zarr_path, train_validate_predict, has_mask) ----
    store,             \* the arguments and the zarr directory they name
    dpc,               \* "idle" | "new" | "constructed" | "targeted" | "raised"
    derror,            \* the exception __init__ raised, "none" when none
    D,                 \* the fields of the EMData object
    target_data,       \* self.target_data, the target array: [shape, data]
    \* ---- Run.run_training() ----
    run,               \* the configuration: [iterations, val_every, resumed]
    iteration,         \* the loop variable i; iterations after the loop
    best_scores,       \* score name -> <<score, iteration>>
    best_validations,  \* score name -> the iteration of the stored validation
    checkpoints,       \* score name -> the iteration of the saved checkpoint
    validations,       \* self.validations: the validations so far
    tpc,               \* "idle" | "new" | "training" | "final" | "finished"
                       \* | "raised"
    terror             \* the exception run_training raised, "none" when none

vars == <<target, pred, pc, error, gt_data, label_ids, detection_scores, scores,
          raw_shape, voxel_size, input_shape, model, ppc, P, perror,
          qpc, scan_request, total_request, shifts, done, writes, ret,
          store, dpc, derror, D, target_data,
          run, iteration, best_scores, best_validations, checkpoints,
          validations, tpc, terror>>

dataVars == <<store, dpc, derror, D, target_data>>
trainVars == <<run, iteration, best_scores, best_validations, checkpoints,
               validations, tpc, terror>>
scoreVars == <<target, pred, pc, error, gt_data, label_ids, detection_scores, scores>>
pipelineVars == <<qpc, scan_request, total_request, shifts, done, writes, ret>>
predictionVars == <<raw_shape, voxel_size, input_shape, model, ppc, P, perror>>
predictVars == <<raw_shape, voxel_size, input_shape, model, ppc, P, perror,
                 qpc, scan_request, total_request, shifts, done, writes, ret>>

-----------------------------------------------------------------------------
(* Bounds of the model *)

\* the largest extent of an array along one axis
MaxExtent == 4
\* the largest number of instances (tp + fp + fn) the matcher reports for a label
MaxInstances == 2
\* the largest extent of the raw volume and of the input tile along one axis
MaxTile == 3
\* the largest number of channels of a raw volume that carries a channel axis
MaxChannels == 2
\* the largest number of voxels the model removes along one axis
MaxLoss == 2
\* the largest extent of a volume that predict_pipeline scans
MaxVolume == 4
\* the largest number of training iterations of a run
MaxIterations == 3
\* the largest extent of a ground truth that create_target copies
MaxGroundTruth == 3

\* the label values that occur in the arrays
Labels == {0, 1, 2}

Axes == 1..3

-----------------------------------------------------------------------------
(* Floating-point values *)

NaN == <<0, 0>>

IsNaN(x) == x[2] = 0

\* the outcome of a division by zero, where Python raises ZeroDivisionError
ZeroDivision == <<0, -1>>

Raises(x) == x[2] < 0

RECURSIVE Gcd(_, _)
Gcd(a, b) == IF b = 0 THEN a ELSE Gcd(b, a % b)

\* the fraction n/d, n >= 0, in lowest terms; d = 0 is a division by zero
Frac(n, d) ==
    IF d = 0 THEN ZeroDivision
    ELSE LET g == Gcd(n, d) IN <<n \div g, d \div g>>

FromInt(n) == <<n, 1>>

\* x + y: not-a-number when either operand is
FAdd(x, y) ==
    IF Raises(x) \/ Raises(y) THEN ZeroDivision
    ELSE IF IsNaN(x) \/ IsNaN(y) THEN NaN
    ELSE Frac(x[1] * y[2] + y[1] * x[2], x[2] * y[2])

\* x * y
FMul(x, y) ==
    IF Raises(x) \/ Raises(y) THEN ZeroDivision
    ELSE IF IsNaN(x) \/ IsNaN(y) THEN NaN
    ELSE Frac(x[1] * y[1], x[2] * y[2])

\* x / y; a division by zero when y is 0.0
FDiv(x, y) ==
    IF Raises(x) \/ Raises(y) THEN ZeroDivision
    ELSE IF IsNaN(x) \/ IsNaN(y) THEN NaN
    ELSE Frac(x[1] * y[2], x[2] * y[1])

\* x > 0: every comparison with not-a-number is false
FGtZero(x) == ~IsNaN(x) /\ x[1] > 0

-----------------------------------------------------------------------------
(* Arrays *)

\* the voxel coordinates of an array of the given shape
Box(shape) == (1..shape[1]) \X (1..shape[2]) \X (1..shape[3])

\* a[start:stop] on an axis of length n: <<first index (0-based), length>>
SliceBounds(n, start, stop) ==
    LET norm(i) == IF i < 0 THEN (IF i + n < 0 THEN 0 ELSE i + n)
                   ELSE (IF i > n THEN n ELSE i)
        lo == norm(start)
        hi == norm(stop)
    IN  <<lo, IF hi > lo THEN hi - lo ELSE 0>>

\* int(d / 2): true division, then truncation towards zero
IntHalf(d) == IF d >= 0 THEN d \div 2 ELSE -((-d) \div 2)

\* np.unique(a): the distinct values of the array
Unique(a) == {a.data[c] : c \in DOMAIN a.data}

RECURSIVE SortedSeq(_)
SortedSeq(S) ==
    IF S = {} THEN <<>>
    ELSE LET m == CHOOSE x \in S : \A y \in S : x <= y
         IN  <<m>> \o SortedSeq(S \ {m})

Range(s) == {s[i] : i \in DOMAIN s}

-----------------------------------------------------------------------------
(* score_prediction *)

\* border of the crop: int((target.shape[i] - pred.shape[i]) / 2)
CropBorder(tshape, pshape) ==
    [i \in Axes |-> IntHalf(tshape[i] - pshape[i])]

\* target[b0:-1*b0, b1:-1*b1, b2:-1*b2]
CropSlices(tshape, b) ==
    [i \in Axes |-> SliceBounds(tshape[i], b[i], -1 * b[i])]

\* the sub-array of a selected by the per-axis slices sb
Slice3(a, sb) ==
    LET shape == <<sb[1][2], sb[2][2], sb[3][2]>>
    IN  [shape |-> shape,
         data  |-> [c \in Box(shape) |->
                      a.data[<<sb[1][1] + c[1], sb[2][1] + c[2], sb[3][1] + c[3]>>]]]

\* the ground truth trimmed to the prediction, or the whole of it when the
\* shapes agree
GtData(t, p) ==
    IF t.shape # p.shape
    THEN Slice3(t, CropSlices(t.shape, CropBorder(t.shape, p.shape)))
    ELSE [shape |-> t.shape, data |-> t.data]

\* a variant that scores the background label too
LabelIdsKeepBackground(gt, background_label) == SortedSeq(Unique(gt))

\* np.unique(gt_data), without the background label unless that is None (<<>>)
LabelIds(gt, background_label) ==
    LET ids == Unique(gt)
    IN  SortedSeq(IF background_label # <<>>
                  THEN {l \in ids : l # background_label[1]}
                  ELSE ids)

\* f'{metric}_{label}'
Key(metric, label) == metric \o "_" \o ToString(label)

AverageKeys == {"precision_average", "recall_average", "fscore_average"}

\* a variant that reports 0.0 when nothing was predicted
PrecisionZeroDefault(tp, fp) ==
    IF tp + fp > 0 THEN Frac(tp, tp + fp) ELSE FromInt(0)

Precision(tp, fp) ==
    LET num_predicted == tp + fp
    IN  IF num_predicted > 0 THEN Frac(tp, num_predicted) ELSE NaN

\* a variant that reports 0.0 when nothing is relevant
RecallZeroDefault(tp, fn) ==
    IF tp + fn > 0 THEN Frac(tp, tp + fn) ELSE FromInt(0)

Recall(tp, fn) ==
    LET num_relevant == tp + fn
    IN  IF num_relevant > 0 THEN Frac(tp, num_relevant) ELSE NaN

\* a variant that reports 0.0 in place of an undefined fscore
FscoreZeroDefault(precision, recall) ==
    IF FGtZero(FAdd(precision, recall))
    THEN FDiv(FMul(FromInt(2), FMul(precision, recall)), FAdd(precision, recall))
    ELSE FromInt(0)

\* a variant that takes an undefined precision or recall as 0.0
FscoreNanAsZero(precision, recall) ==
    LET p == IF IsNaN(precision) THEN FromInt(0) ELSE precision
        r == IF IsNaN(recall) THEN FromInt(0) ELSE recall
    IN  IF FGtZero(FAdd(p, r))
        THEN FDiv(FMul(FromInt(2), FMul(p, r)), FAdd(p, r))
        ELSE FromInt(0)

\* a variant that divides whatever the sum of precision and recall is
FscoreUnguarded(precision, recall) ==
    FDiv(FMul(FromInt(2), FMul(precision, recall)), FAdd(precision, recall))

Fscore(precision, recall) ==
    IF FGtZero(FAdd(precision, recall))
    THEN FDiv(FMul(FromInt(2), FMul(precision, recall)), FAdd(precision, recall))
    ELSE NaN

\* a variant whose running totals skip undefined values
ScoreLabelSkipNaN(acc, label, ds) ==
    LET precision == Precision(ds[label][1], ds[label][2])
        recall    == Recall(ds[label][1], ds[label][3])
        fscore    == Fscore(precision, recall)
        plus(t, v) == IF IsNaN(v) THEN t ELSE FAdd(t, v)
    IN  [scores |-> (Key("precision", label) :> precision)
                    @@ (Key("recall", label) :> recall)
                    @@ (Key("fscore", label) :> fscore)
                    @@ acc.scores,
         precision_total |-> plus(acc.precision_total, precision),
         recall_total    |-> plus(acc.recall_total, recall),
         fscore_total    |-> plus(acc.fscore_total, fscore)]

\* the body of the loop over label_ids for one label: the three entries of
\* the report and the running totals
ScoreLabel(acc, label, ds) ==
    LET tp == ds[label][1]
        fp == ds[label][2]
        fn == ds[label][3]
        precision == Precision(tp, fp)
        recall    == Recall(tp, fn)
        fscore    == Fscore(precision, recall)
    IN  [scores |-> (Key("precision", label) :> precision)
                    @@ (Key("recall", label) :> recall)
                    @@ (Key("fscore", label) :> fscore)
                    @@ acc.scores,
         precision_total |-> FAdd(acc.precision_total, precision),
         recall_total    |-> FAdd(acc.recall_total, recall),
         fscore_total    |-> FAdd(acc.fscore_total, fscore)]

RECURSIVE ScoreLoop(_, _, _, _)
ScoreLoop(acc, ids, i, ds) ==
    IF i > Len(ids) THEN acc
    ELSE ScoreLoop(ScoreLabel(acc, ids[i], ds), ids, i + 1, ds)

\* a variant that counts the background label among the labels
AverageCountingBackground(total, size) == FDiv(total, FromInt(size + 1))

\* total / label_ids.size
Average(total, size) == FDiv(total, FromInt(size))

\* a variant that emits the averages only from two labels on
ReportAveragesFromTwo(ids, ds) ==
    LET zero == [scores |-> <<>>,
                 precision_total |-> FromInt(0),
                 recall_total    |-> FromInt(0),
                 fscore_total    |-> FromInt(0)]
        acc  == ScoreLoop(zero, ids, 1, ds)
    IN  IF Len(ids) >= 2
        THEN ("precision_average" :> Average(acc.precision_total, Len(ids)))
             @@ ("recall_average" :> Average(acc.recall_total, Len(ids)))
             @@ ("fscore_average" :> Average(acc.fscore_total, Len(ids)))
             @@ acc.scores
        ELSE acc.scores

\* the report score_prediction returns for the labels ids and the matcher's
\* counts ds
Report(ids, ds) ==
    LET zero == [scores |-> <<>>,
                 precision_total |-> FromInt(0),
                 recall_total    |-> FromInt(0),
                 fscore_total    |-> FromInt(0)]
        acc  == ScoreLoop(zero, ids, 1, ds)
    IN  IF Len(ids) >= 1
        THEN ("precision_average" :> Average(acc.precision_total, Len(ids)))
             @@ ("recall_average" :> Average(acc.recall_total, Len(ids)))
             @@ ("fscore_average" :> Average(acc.fscore_total, Len(ids)))
             @@ acc.scores
        ELSE acc.scores

\* a division of the report was a division by zero
DivisionByZero(report) == \E k \in DOMAIN report : Raises(report[k])

\* the counts <<tp, fp, fn>> the matcher can report for one label
Counts ==
    {t \in (0..MaxInstances) \X (0..MaxInstances) \X (0..MaxInstances) :
        t[1] + t[2] + t[3] <= MaxInstances}

NoArray == [shape |-> <<0, 0, 0>>, data |-> <<>>]

\* score_prediction raises before the matcher is called
ScoreRaise(e) ==
    /\ pc' = "raised"
    /\ error' = e
    /\ UNCHANGED <<target, pred, gt_data, label_ids, detection_scores, scores>>

\* One call of score_prediction(pred, target) with the default matching
\* parameters.  The matcher (funlib.evaluate.detection_scores) is an external
\* library: it answers with some counts for every label it is asked about,
\* and may instead raise when the two arrays it is given differ in shape.
ScorePrediction ==
    /\ pc = "call"
    /\ IF "resolution" \notin DOMAIN target.attrs
          \/ "background_label" \notin DOMAIN target.attrs
       THEN ScoreRaise("KeyError")
       ELSE LET gt  == GtData(target, pred)
                ids == LabelIds(gt, target.attrs.background_label)
            IN  \/ \E ds \in [Range(ids) -> Counts] :
                     /\ gt_data' = gt
                     /\ label_ids' = ids
                     /\ detection_scores' = ds
                     /\ IF DivisionByZero(Report(ids, ds))
                        THEN /\ pc' = "raised"
                             /\ error' = "ZeroDivisionError"
                             /\ UNCHANGED scores
                        ELSE /\ pc' = "returned"
                             /\ error' = "none"
                             /\ scores' = Report(ids, ds)
                     /\ UNCHANGED <<target, pred>>
                \/ /\ gt.shape # pred.shape
                   /\ pc' = "raised"
                   /\ error' = "MatcherError"
                   /\ gt_data' = gt
                   /\ label_ids' = ids
                   /\ UNCHANGED <<target, pred, detection_scores, scores>>
    /\ UNCHANGED predictVars
    /\ UNCHANGED <<dataVars, trainVars>>

-----------------------------------------------------------------------------
(* Inputs of score_prediction *)

\* an array whose first z-layer holds a and whose other voxels hold b
Layered(shape, a, b) ==
    [shape |-> shape,
     data  |-> [c \in Box(shape) |-> IF c[1] = 1 THEN a ELSE b]]

Shapes == (1..MaxExtent) \X (1..MaxExtent) \X (1..MaxExtent)

Cube(n) == <<n, n, n>>

Resolution == <<1, 1, 1>>

\* the attributes of the ground truth: complete; background_label null;
\* background_label missing; resolution missing
TargetAttrs ==
    { [resolution |-> Resolution, background_label |-> <<0>>],
      [resolution |-> Resolution, background_label |-> <<>>],
      [resolution |-> Resolution],
      [background_label |-> <<0>>] }

\* no training run
TrainIdle ==
    /\ run = <<>>
    /\ iteration = 0
    /\ best_scores = <<>>
    /\ best_validations = <<>>
    /\ checkpoints = <<>>
    /\ validations = <<>>
    /\ tpc = "idle"
    /\ terror = "none"

\* no EMData is constructed
DataIdle ==
    /\ store = <<>>
    /\ dpc = "idle"
    /\ derror = "none"
    /\ D = <<>>
    /\ target_data = <<>>

\* no call of predict_pipeline
PipelineIdle ==
    /\ qpc = "idle"
    /\ scan_request = <<>>
    /\ total_request = <<>>
    /\ shifts = <<>>
    /\ done = 0
    /\ writes = <<>>
    /\ ret = <<>>

PredictIdle ==
    /\ raw_shape = <<>>
    /\ voxel_size = <<>>
    /\ input_shape = <<>>
    /\ model = <<>>
    /\ ppc = "idle"
    /\ P = <<>>
    /\ perror = "none"
    /\ PipelineIdle

\* Two families of calls: every pair of shapes with one-label arrays, and
\* cubes (prediction no larger than the ground truth) with every content and
\* every attribute set.
InitScore ==
    /\ \/ \E ts \in Shapes, ps \in Shapes :
             /\ target = [shape |-> ts, data |-> Layered(ts, 1, 1).data,
                          attrs |-> [resolution |-> Resolution,
                                     background_label |-> <<0>>]]
             /\ pred = Layered(ps, 1, 1)
       \/ \E n \in 1..MaxExtent, m \in 1..MaxExtent, a \in Labels, b \in Labels,
             c \in Labels, d \in Labels, at \in TargetAttrs :
             /\ m <= n
             /\ target = [shape |-> Cube(n), data |-> Layered(Cube(n), a, b).data,
                          attrs |-> at]
             /\ pred = Layered(Cube(m), c, d)
    /\ pc = "call"
    /\ error = "none"
    /\ gt_data = NoArray
    /\ label_ids = <<>>
    /\ detection_scores = <<>>
    /\ scores = <<>>
    /\ PredictIdle
    /\ DataIdle
    /\ TrainIdle

NextScore == ScorePrediction

SpecScore == InitScore /\ [][NextScore]_vars

-----------------------------------------------------------------------------
(* Prediction *)

\* a resolver that never fails: the border is half the difference, rounded
\* down
UnetOutputShapeFlooring(m, ishape) ==
    [ok |-> TRUE,
     output_shape |-> <<ishape[1] - m.loss[1], ishape[2] - m.loss[2],
                        ishape[3] - m.loss[3]>>,
     border |-> <<m.loss[1] \div 2, m.loss[2] \div 2, m.loss[3] \div 2>>]

\* UnetOutputShape(model, input_shape): the output shape of the model for an
\* input tile and the border (input - output) / 2; fails when the model's
\* shape function raises, an output extent is not positive or a difference
\* is odd
UnetOutputShape(m, ishape) ==
    LET out == [i \in Axes |-> ishape[i] - m.loss[i]]
    IN  IF m.raises \/ \E i \in Axes : out[i] <= 0 \/ m.loss[i] % 2 # 0
        THEN [ok |-> FALSE, output_shape |-> <<>>, border |-> <<>>]
        ELSE [ok |-> TRUE,
              output_shape |-> <<out[1], out[2], out[3]>>,
              border |-> <<m.loss[1] \div 2, m.loss[2] \div 2, m.loss[3] \div 2>>]

\* raw_channels: 1 for a 3-axis raw array, its first extent for a 4-axis one
RawChannels(rshape) == IF Len(rshape) = 3 THEN 1 ELSE rshape[1]

ChannelDims(raw_channels) == IF raw_channels = 1 THEN 0 ELSE 1

\* one axis of the shape for prediction (axis is 1-based here)
PredictShapeAxis(ishape, rshape, axis) ==
    IF ishape[axis] >= rshape[axis] THEN ishape[axis] ELSE rshape[axis]

PredictShape(ishape, rshape) ==
    <<PredictShapeAxis(ishape, rshape, 1),
      PredictShapeAxis(ishape, rshape, 2),
      PredictShapeAxis(ishape, rshape, 3)>>

\* voxel_size * gp.Coordinate(shape)
WorldSize(vs, shape) == <<vs[1] * shape[1], vs[2] * shape[2], vs[3] * shape[3]>>

\* Prediction.__init__(data, model, input_shape)
PredictionInit ==
    /\ ppc = "new"
    /\ LET r == UnetOutputShape(model, input_shape)
           predict_shape == PredictShape(input_shape, raw_shape)
       IN  IF ~r.ok
           THEN /\ ppc' = "raised"
                /\ perror' = "ShapeError"
                /\ P' = <<>>
           ELSE /\ ppc' = "ready"
                /\ perror' = "none"
                /\ P' = [raw_channels  |-> RawChannels(raw_shape),
                         channel_dims  |-> ChannelDims(RawChannels(raw_shape)),
                         output_shape  |-> r.output_shape,
                         border        |-> r.border,
                         predict_shape |-> predict_shape,
                         input_size    |-> WorldSize(voxel_size, input_shape),
                         output_size   |-> WorldSize(voxel_size, r.output_shape),
                         predict_size  |-> WorldSize(voxel_size, predict_shape),
                         border_size   |-> WorldSize(voxel_size, r.border)]
    /\ UNCHANGED <<raw_shape, voxel_size, input_shape, model>>
    /\ UNCHANGED pipelineVars
    /\ UNCHANGED scoreVars
    /\ UNCHANGED <<dataVars, trainVars>>

-----------------------------------------------------------------------------
(* Prediction.predict_pipeline *)

\* a region of interest in world units
Roi(offset, shape) == [offset |-> offset, shape |-> shape]

MinOf(S) == CHOOSE x \in S : \A y \in S : x <= y

MaxOf(S) == CHOOSE x \in S : \A y \in S : x >= y

\* the centre of a ROI along an axis: offset + shape / 2, an integer
RoiCenter(roi, i) == roi.offset[i] + roi.shape[i] \div 2

\* the centre of the bounding box of the ROIs of a request
TotalCenter(request, i) ==
    LET begin == MinOf({request[k].offset[i] : k \in DOMAIN request})
        end   == MaxOf({request[k].offset[i] + request[k].shape[i] :
                        k \in DOMAIN request})
    IN  begin + (end - begin) \div 2

\* BatchRequest.add(key, shape): a ROI of that shape at the origin, then all
\* ROIs of the request are moved to share one centre
BatchRequestAdd(request, key, shape) ==
    LET added == (key :> Roi(<<0, 0, 0>>, shape)) @@ request
    IN  [k \in DOMAIN added |->
            Roi([i \in Axes |-> added[k].offset[i]
                                + TotalCenter(added, i) - RoiCenter(added[k], i)],
                added[k].shape)]

\* a scan request whose prediction has the size of the input
ScanRequestOfInput(p) ==
    BatchRequestAdd(BatchRequestAdd(<<>>, "raw", p.input_size),
                    "prediction", p.input_size)

\* scan_request: raw of input_size and prediction of output_size
ScanRequest(p) ==
    BatchRequestAdd(BatchRequestAdd(<<>>, "raw", p.input_size),
                    "prediction", p.output_size)

\* a total request that takes the border off once
TotalRequestOneBorder(p) ==
    BatchRequestAdd(BatchRequestAdd(<<>>, "raw", p.predict_size),
                    "prediction",
                    [i \in Axes |-> p.predict_size[i] - p.border_size[i]])

\* total_request: raw of predict_size and prediction of
\* predict_size - border_size*2
TotalRequest(p) ==
    BatchRequestAdd(BatchRequestAdd(<<>>, "raw", p.predict_size),
                    "prediction",
                    [i \in Axes |-> p.predict_size[i] - p.border_size[i] * 2])

\* gp.Scan: the stride is the smallest extent of the reference's ROIs
ScanStride(reference, i) == MinOf({reference[k].shape[i] : k \in DOMAIN reference})

\* gp.Scan: the first and the last offset at which every ROI of the
\* reference lies inside the requested ROI of the same array
MinShift(reference, request, i) ==
    MaxOf({request[k].offset[i] - reference[k].offset[i] : k \in DOMAIN reference})

\* a last offset at which the reference only begins inside the request
MaxShiftBeginInside(reference, request, i) ==
    MinOf({request[k].offset[i] + request[k].shape[i]
           - reference[k].offset[i] - voxel_size[i] : k \in DOMAIN reference})

MaxShift(reference, request, i) ==
    MinOf({request[k].offset[i] + request[k].shape[i]
           - reference[k].offset[i] - reference[k].shape[i] : k \in DOMAIN reference})

\* offsets in steps of the stride that run past hi
RECURSIVE AxisShiftsPastEnd(_, _, _)
AxisShiftsPastEnd(lo, hi, stride) ==
    IF lo >= hi THEN <<lo>>
    ELSE <<lo>> \o AxisShiftsPastEnd(lo + stride, hi, stride)

\* gp.Scan: the offsets along one axis, from lo in steps of the stride, the
\* last one moved back to hi
RECURSIVE AxisShifts(_, _, _)
AxisShifts(lo, hi, stride) ==
    IF lo >= hi THEN <<lo>>
    ELSE <<lo>> \o AxisShifts(IF lo + stride > hi THEN hi ELSE lo + stride,
                              hi, stride)

\* gp.Scan: all offsets of the reference, the first axis counting fastest
EnumerateShifts(reference, request) ==
    LET ax(i) == AxisShifts(MinShift(reference, request, i),
                            MaxShift(reference, request, i),
                            ScanStride(reference, i))
        nz == Len(ax(1))
        ny == Len(ax(2))
        nx == Len(ax(3))
    IN  [n \in 1..(nz * ny * nx) |->
            <<ax(1)[((n - 1) % nz) + 1],
              ax(2)[(((n - 1) \div nz) % ny) + 1],
              ax(3)[((n - 1) \div (nz * ny)) + 1]>>]

\* the request of one tile: the reference moved by a shift
TileRequest(reference, shift) ==
    [k \in DOMAIN reference |->
        Roi([i \in Axes |-> reference[k].offset[i] + shift[i]], reference[k].shape)]

\* the extent of a ROI in voxels
VoxelShape(roi, vs) ==
    <<roi.shape[1] \div vs[1], roi.shape[2] \div vs[2], roi.shape[3] \div vs[3]>>

\* the voxels of the array with ROI whole that lie in the ROI part
VoxelsOf(part, whole, vs) ==
    {c \in Box(VoxelShape(whole, vs)) :
        \A i \in Axes :
            LET w == whole.offset[i] + (c[i] - 1) * vs[i]
            IN  w >= part.offset[i] /\ w < part.offset[i] + part.shape[i]}

\* predict_pipeline, up to the first tile: the model is put in evaluation
\* mode, the requests are made and the pipeline is built
PredictPipeline ==
    /\ ppc = "ready"
    /\ qpc = "idle"
    /\ qpc' = "scanning"
    /\ scan_request' = ScanRequest(P)
    /\ total_request' = TotalRequest(P)
    /\ shifts' = EnumerateShifts(ScanRequest(P), TotalRequest(P))
    /\ done' = 0
    /\ writes' = [c \in Box(VoxelShape(TotalRequest(P).prediction, voxel_size)) |-> 0]
    /\ ret' = <<>>
    /\ UNCHANGED predictionVars
    /\ UNCHANGED scoreVars
    /\ UNCHANGED <<dataVars, trainVars>>

\* what predict_pipeline returns when the scan is complete
ReturnedBatch(request, vs) ==
    [raw        |-> VoxelShape(request.raw, vs),
     prediction |-> VoxelShape(request.prediction, vs)]

\* the scan asks the model for the next tile and copies its output into the
\* prediction; after the last tile the batch is returned
ScanTile ==
    /\ qpc = "scanning"
    /\ done < Len(shifts)
    /\ LET tile == TileRequest(scan_request, shifts[done + 1])
           out  == VoxelsOf(tile.prediction, total_request.prediction, voxel_size)
       IN  writes' = [c \in DOMAIN writes |->
                         IF c \in out THEN writes[c] + 1 ELSE writes[c]]
    /\ done' = done + 1
    /\ IF done + 1 = Len(shifts)
       THEN /\ qpc' = "returned"
            /\ ret' = ReturnedBatch(total_request, voxel_size)
       ELSE UNCHANGED <<qpc, ret>>
    /\ UNCHANGED predictionVars
    /\ UNCHANGED <<scan_request, total_request, shifts>>
    /\ UNCHANGED scoreVars
    /\ UNCHANGED <<dataVars, trainVars>>

\* the model raises on the next tile and what was assembled is returned
TileRaisesCaught ==
    /\ qpc = "scanning"
    /\ done < Len(shifts)
    /\ qpc' = "raised"
    /\ ret' = ReturnedBatch(total_request, voxel_size)
    /\ UNCHANGED predictionVars
    /\ UNCHANGED <<scan_request, total_request, shifts, done, writes>>
    /\ UNCHANGED scoreVars
    /\ UNCHANGED <<dataVars, trainVars>>

\* the model raises on the next tile: the exception leaves predict_pipeline
TileRaises ==
    /\ qpc = "scanning"
    /\ done < Len(shifts)
    /\ qpc' = "raised"
    /\ UNCHANGED predictionVars
    /\ UNCHANGED <<scan_request, total_request, shifts, done, writes, ret>>
    /\ UNCHANGED scoreVars
    /\ UNCHANGED <<dataVars, trainVars>>


TileShapes == (1..MaxTile) \X (1..MaxTile) \X (1..MaxTile)

\* the shapes of a raw array: <<z, y, x>>, or <<channels, z, y, x>>
RawShapes ==
    TileShapes \cup {<<c>> \o sh : c \in 1..MaxChannels, sh \in TileShapes}

\* the models: the context loss along z, and along y and x, and a model
\* whose shape function raises
Models ==
    {[loss |-> <<lz, lyx, lyx>>, raises |-> FALSE] :
        lz \in 0..MaxLoss, lyx \in 0..MaxLoss}
    \cup {[loss |-> <<0, 0, 0>>, raises |-> TRUE]}

ScoreIdle ==
    /\ target = NoArray
    /\ pred = NoArray
    /\ pc = "idle"
    /\ error = "none"
    /\ gt_data = NoArray
    /\ label_ids = <<>>
    /\ detection_scores = <<>>
    /\ scores = <<>>

InitPredict ==
    /\ raw_shape \in RawShapes
    /\ input_shape \in TileShapes
    /\ voxel_size = <<4, 2, 2>>
    /\ model \in Models
    /\ ppc = "new"
    /\ P = <<>>
    /\ perror = "none"
    /\ PipelineIdle
    /\ ScoreIdle
    /\ DataIdle
    /\ TrainIdle

NextPredict == PredictionInit

SpecPredict == InitPredict /\ [][NextPredict]_vars

\* the volumes scanned by predict_pipeline
Volumes == (1..MaxVolume) \X (1..MaxVolume) \X (1..MaxVolume)

\* a (10,10,10) volume, input tiles of (10,10,10) and a model that gives
\* outputs of (6,6,6)
WorkedExample ==
    [raw_shape |-> <<10, 10, 10>>, input_shape |-> <<10, 10, 10>>,
     model |-> [loss |-> <<4, 4, 4>>, raises |-> FALSE]]

\* the predictions that are constructed and then run: cubic input tiles over
\* every 3-axis volume and over cubic 4-axis volumes, and the worked example
InitPipeline ==
    /\ \/ /\ input_shape \in {Cube(n) : n \in 1..MaxTile}
          /\ raw_shape \in Volumes \cup {<<c>> \o Cube(n) : c \in 1..MaxChannels,
                                                             n \in 1..MaxVolume}
          /\ model \in Models
       \/ /\ input_shape = WorkedExample.input_shape
          /\ raw_shape = WorkedExample.raw_shape
          /\ model = WorkedExample.model
    /\ voxel_size = <<4, 2, 2>>
    /\ ppc = "new"
    /\ P = <<>>
    /\ perror = "none"
    /\ PipelineIdle
    /\ ScoreIdle
    /\ DataIdle
    /\ TrainIdle

NextPipeline == PredictionInit \/ PredictPipeline \/ ScanTile \/ TileRaises

SpecPipeline == InitPipeline /\ [][NextPipeline]_vars

-----------------------------------------------------------------------------
(* EMData.__init__ *)

\* a < b for two Python tuples of three integers
TupleLess(a, b) ==
    \/ a[1] < b[1]
    \/ a[1] = b[1] /\ a[2] < b[2]
    \/ a[1] = b[1] /\ a[2] = b[2] /\ a[3] < b[3]

\* has_target: a target array is in the mode's folder and its shape is not
\* less than TRAINING_CONFIG.input_shape
HasTarget(st) ==
    /\ st.target # <<>>
    /\ ~TupleLess(st.target, st.config_input_shape)

TrainOrValidate(st) == st.mode \in {"train", "validate"}

\* an attribute the raw data and the ground truth both carry, with two values
AttributeMismatch(st) ==
    \E atr \in DOMAIN st.raw_attrs :
        /\ atr \in DOMAIN st.gt_attrs
        /\ st.raw_attrs[atr] # st.gt_attrs[atr]

\* the check of the ground truth's attributes against the raw data's
GtAttributeError(st) ==
    IF ~st.gt_zattrs THEN "FileNotFoundError"
    ELSE IF AttributeMismatch(st) THEN "ValueError"
    ELSE "none"

\* the checks of the attributes, in the order of the code
AttributeError(st) ==
    IF ~st.raw_zattrs THEN "FileNotFoundError"
    ELSE IF "resolution" \notin DOMAIN st.raw_attrs THEN "FileNotFoundError"
    ELSE IF "axes" \notin DOMAIN st.raw_attrs THEN "FileNotFoundError"
    ELSE IF st.raw_attrs.axes # <<"z", "y", "x">> THEN "ValueError"
    ELSE IF TrainOrValidate(st) THEN GtAttributeError(st)
    ELSE "none"

\* the checks of the zarr directory, in the order of the code
FolderError(st) ==
    IF ~st.zgroup THEN "FileNotFoundError"
    ELSE IF ~st.mode_folder THEN "FileNotFoundError"
    ELSE IF ~st.mode_zgroup THEN "FileNotFoundError"
    ELSE IF TrainOrValidate(st) /\ ~st.gt THEN "FileNotFoundError"
    ELSE IF TrainOrValidate(st) /\ st.has_mask /\ ~st.mask THEN "FileNotFoundError"
    ELSE "none"

\* the exception EMData.__init__ raises, "none" when it returns
EMDataError(st) ==
    IF st.mode \notin {"train", "validate", "predict"} THEN "ValueError"
    ELSE IF FolderError(st) # "none" THEN FolderError(st)
    ELSE AttributeError(st)

\* EMData.__init__(zarr_path, train_validate_predict, has_mask)
EMDataInit ==
    /\ dpc = "new"
    /\ IF EMDataError(store) # "none"
       THEN /\ dpc' = "raised"
            /\ derror' = EMDataError(store)
            /\ D' = <<>>
            /\ UNCHANGED target_data
       ELSE /\ dpc' = "constructed"
            /\ derror' = "none"
            /\ target_data' = IF TrainOrValidate(store) /\ store.target # <<>>
                              THEN Layered(store.target, 1, 2)
                              ELSE target_data
            /\ D' = [mode       |-> store.mode,
                     has_mask   |-> store.has_mask,
                     has_target |-> TrainOrValidate(store) /\ HasTarget(store),
                     resolution |-> store.raw_attrs.resolution,
                     axes       |-> store.raw_attrs.axes,
                     voxel_size |-> store.raw_attrs.resolution]
    /\ UNCHANGED store
    /\ UNCHANGED <<scoreVars, predictVars, trainVars>>

\* the rows to add at the end of an axis of n voxels for an input of m
PadWidth(n, m) == IF m - n < 0 THEN 0 ELSE m - n

\* np.pad(a, ((0, dz), (0, dy), (0, dx)), 'constant'): zeros after the end of
\* each axis
NpPad(a, dz, dy, dx) ==
    LET shape == <<a.shape[1] + dz, a.shape[2] + dy, a.shape[3] + dx>>
    IN  [shape |-> shape,
         data  |-> [c \in Box(shape) |->
                       IF c \in DOMAIN a.data THEN a.data[c] ELSE 0]]

\* the array create_target writes: the ground truth, padded when its shape
\* is less than the input shape as a tuple
TargetOf(gt, ishape) ==
    IF TupleLess(gt.shape, ishape)
    THEN NpPad(gt, PadWidth(gt.shape[1], ishape[1]),
                   PadWidth(gt.shape[2], ishape[2]),
                   PadWidth(gt.shape[3], ishape[3]))
    ELSE gt

\* the ground truth of a store: its first z-layer holds 1, the rest 2
GtArray(st) == Layered(st.gt_shape, 1, 2)

\* EMData.create_target(): f['gt'] raises KeyError in a folder without gt
CreateTarget ==
    /\ dpc = "constructed"
    /\ IF ~store.gt
       THEN /\ dpc' = "raised"
            /\ derror' = "KeyError"
            /\ UNCHANGED <<store, D, target_data>>
       ELSE /\ dpc' = "targeted"
            /\ target_data' = TargetOf(GtArray(store), store.config_input_shape)
            /\ store' = [store EXCEPT
                            !.target = TargetOf(GtArray(store),
                                                store.config_input_shape).shape]
            /\ D' = [D EXCEPT !.has_target = TRUE]
            /\ UNCHANGED derror
    /\ UNCHANGED <<scoreVars, predictVars, trainVars>>

\* an attribute that is missing or has one of the given values
Attribute(name, values) == {<<>>} \cup {name :> v : v \in values}

\* the attributes of a raw array: resolution and axes
RawAttributes ==
    {r @@ a : r \in Attribute("resolution", {<<1, 1, 1>>, <<4, 2, 2>>}),
              a \in Attribute("axes", {<<"z", "y", "x">>, <<"x", "y", "z">>})}

\* the attributes of a ground truth: those of a raw array and background_label
GtAttributes == {a @@ b : a \in RawAttributes, b \in Attribute("background_label", {0})}

\* the zarr directories: at most one group file or folder is missing, and an
\* array without a .zattrs file has no attributes
Stores ==
    {st \in [mode : {"train", "validate", "predict", "test"},
             zgroup : BOOLEAN, mode_folder : BOOLEAN, mode_zgroup : BOOLEAN,
             gt : BOOLEAN,
             has_mask : BOOLEAN, mask : BOOLEAN,
             target : {<<>>, <<1, 3, 3>>, <<3, 1, 1>>},
             config_input_shape : {<<2, 2, 2>>},
             raw_zattrs : BOOLEAN,
             raw_attrs : RawAttributes,
             gt_zattrs : BOOLEAN,
             gt_attrs : GtAttributes] :
        /\ Cardinality({f \in {"zgroup", "mode_folder", "mode_zgroup"} : ~st[f]}) <= 1
        /\ (st.mask => st.has_mask)
        /\ (~st.raw_zattrs => st.raw_attrs = <<>>)
        /\ (~st.gt_zattrs => st.gt_attrs = <<>>)
        /\ (~st.gt => ~st.gt_zattrs /\ st.target = <<>>)}

\* the shapes of a ground truth
GtShapes ==
    (1..MaxGroundTruth) \X (1..MaxGroundTruth) \X (1..MaxGroundTruth)

\* the shapes of the ground truth of a zarr directory: every shape where an
\* EMData can be constructed over a ground truth, one shape elsewhere
GtShapesOf(st) ==
    IF st.gt /\ EMDataError(st) = "none" THEN GtShapes
    ELSE IF st.gt THEN {<<2, 2, 2>>}
    ELSE {<<>>}

InitData ==
    /\ \E st \in Stores : \E g \in GtShapesOf(st) :
           store = [gt_shape |-> g] @@ st
    /\ dpc = "new"
    /\ derror = "none"
    /\ D = <<>>
    /\ target_data = <<>>
    /\ ScoreIdle
    /\ PredictIdle
    /\ TrainIdle

NextData == EMDataInit \/ CreateTarget

SpecData == InitData /\ [][NextData]_vars

-----------------------------------------------------------------------------
(* Run.run_training *)

\* the score names Run.__init__ gives best_scores
ScoreNames ==
    {"precision_1", "recall_1", "fscore_1",
     "precision_2", "recall_2", "fscore_2",
     "precision_average", "recall_average", "fscore_average"}

\* best_scores as Run.__init__ makes it
InitialBestScores == [k \in ScoreNames |-> <<FromInt(0), "Iteration ">>]

\* best_scores as a resumed run loads it: the scores of an earlier run, each
\* iteration marked with a star
LoadedBestScores ==
    [k \in ScoreNames |->
        IF k \in {"precision_1", "recall_1", "fscore_1"}
        THEN <<Frac(1, 2), "Iteration 1*">>
        ELSE <<FromInt(0), "Iteration *">>]

\* v > w for two floats: false when either is not-a-number
FGreater(v, w) == ~IsNaN(v) /\ ~IsNaN(w) /\ v[1] * w[2] > w[1] * v[2]

\* the keys of a report in the order they were inserted: the three scores of
\* each label in turn, then the averages
ReportKeys(ids) ==
    [n \in 1..(3 * Len(ids)) |->
        Key(<<"precision", "recall", "fscore">>[((n - 1) % 3) + 1],
            ids[((n - 1) \div 3) + 1])]
    \o (IF Len(ids) >= 1
        THEN <<"precision_average", "recall_average", "fscore_average">>
        ELSE <<>>)

\* an update that also takes a score equal to the best one
UpdateBestOrEqual(b, k, v, i, report) ==
    IF FGreater(v, b.best_scores[k][1]) \/ v = b.best_scores[k][1]
    THEN [best_scores      |-> (k :> <<v, "Iteration " \o ToString(i)>>) @@ b.best_scores,
          best_validations |-> (k :> [iteration |-> i, scores |-> report])
                               @@ b.best_validations,
          checkpoints      |-> (k :> i) @@ b.checkpoints,
          error            |-> "none"]
    ELSE b

\* the body of the loop over scores.items() for a key that best_scores has:
\* a greater score replaces the best one, the validation is kept and a
\* checkpoint is saved under the key
UpdateBest(b, k, v, i, report) ==
    IF FGreater(v, b.best_scores[k][1])
    THEN [best_scores      |-> (k :> <<v, "Iteration " \o ToString(i)>>) @@ b.best_scores,
          best_validations |-> (k :> [iteration |-> i, scores |-> report])
                               @@ b.best_validations,
          checkpoints      |-> (k :> i) @@ b.checkpoints,
          error            |-> "none"]
    ELSE b

\* the loop over scores.items(), from the n-th key on: the lookup of a key
\* that best_scores does not have raises KeyError and ends the loop
RECURSIVE UpdateLoop(_, _, _, _, _)
UpdateLoop(b, keys, n, report, i) ==
    IF n > Len(keys) THEN b
    ELSE IF keys[n] \notin DOMAIN b.best_scores
         THEN [b EXCEPT !.error = "KeyError"]
    ELSE UpdateLoop(UpdateBest(b, keys[n], report[keys[n]], i, report),
                    keys, n + 1, report, i)

\* one validation round at iteration i with the scores of the given labels
\* and counts
ValidationRound(ids, ds, i) ==
    LET b == UpdateLoop([best_scores      |-> best_scores,
                         best_validations |-> best_validations,
                         checkpoints      |-> checkpoints,
                         error            |-> "none"],
                        ReportKeys(ids), 1, Report(ids, ds), i)
    IN  /\ validations' = Append(validations,
                                 [iteration |-> i, scores |-> Report(ids, ds)])
        /\ best_scores' = b.best_scores
        /\ best_validations' = b.best_validations
        /\ checkpoints' = b.checkpoints
        /\ terror' = b.error

\* the labels of a validation ground truth
ValidationLabels == {<<>>, <<1>>, <<1, 2>>, <<1, 3>>}

\* the counts of one label of a validation
ValidationCounts == {<<0, 0, 1>>, <<1, 1, 0>>, <<1, 0, 0>>}

\* run_training up to the loop: a resumed run loads the best scores
StartTraining ==
    /\ tpc = "new"
    /\ tpc' = "training"
    /\ best_scores' = IF run.resumed THEN LoadedBestScores ELSE best_scores
    /\ UNCHANGED <<run, iteration, best_validations, checkpoints, validations, terror>>
    /\ UNCHANGED <<scoreVars, predictVars, dataVars>>

\* one pass of the loop: a training step and, every val_every iterations
\* after the first, a validation
TrainIteration ==
    /\ tpc = "training"
    /\ iteration < run.iterations
    /\ IF iteration % run.val_every = 0 /\ iteration > 0
       THEN \E ids \in ValidationLabels :
                \E ds \in [Range(ids) -> ValidationCounts] :
                    ValidationRound(ids, ds, iteration)
       ELSE UNCHANGED <<best_scores, best_validations, checkpoints,
                        validations, terror>>
    /\ tpc' = IF terror' # "none" THEN "raised"
              ELSE IF iteration + 1 = run.iterations THEN "final"
              ELSE "training"
    /\ iteration' = IF terror' # "none" THEN iteration ELSE iteration + 1
    /\ UNCHANGED run
    /\ UNCHANGED <<scoreVars, predictVars, dataVars>>

\* the validation after the loop, at iteration TRAINING_CONFIG.iterations
FinalValidation ==
    /\ tpc = "final"
    /\ \E ids \in ValidationLabels :
           \E ds \in [Range(ids) -> ValidationCounts] :
               ValidationRound(ids, ds, run.iterations)
    /\ tpc' = IF terror' # "none" THEN "raised" ELSE "finished"
    /\ UNCHANGED <<run, iteration>>
    /\ UNCHANGED <<scoreVars, predictVars, dataVars>>

\* the runs: the number of iterations, the validation period, resumed or not
Runs ==
    [iterations : 1..MaxIterations, val_every : 1..2, resumed : BOOLEAN]

InitTrain ==
    /\ run \in Runs
    /\ iteration = 0
    /\ best_scores = InitialBestScores
    /\ best_validations = <<>>
    /\ checkpoints = <<>>
    /\ validations = <<>>
    /\ tpc = "new"
    /\ terror = "none"
    /\ ScoreIdle
    /\ PredictIdle
    /\ DataIdle

NextTrain == StartTraining \/ TrainIteration \/ FinalValidation

SpecTrain == InitTrain /\ [][NextTrain]_vars

\* the whole program
Init == InitScore \/ InitPredict \/ InitPipeline \/ InitData \/ InitTrain

Next ==
    \/ ScorePrediction
    \/ PredictionInit
    \/ PredictPipeline
    \/ ScanTile
    \/ TileRaises
    \/ EMDataInit
    \/ CreateTarget
    \/ StartTraining
    \/ TrainIteration
    \/ FinalValidation

Spec == Init /\ [][Next]_vars

-----------------------------------------------------------------------------
(* Properties of score_prediction *)

Returned == pc = "returned"

\* the call got as far as trimming the ground truth
Cropped == pc \in {"returned", "raised"} /\ error # "KeyError"

\* the background label that is filtered out, if any
Background ==
    IF "background_label" \in DOMAIN target.attrs
       /\ target.attrs.background_label # <<>>
    THEN {target.attrs.background_label[1]}
    ELSE {}

Metrics == {"precision", "recall", "fscore"}

\* the value v is the fraction n / d (d > 0)
IsFraction(v, n, d) == v[2] > 0 /\ v[1] * d = n * v[2]

PredNoLarger == \A i \in Axes : pred.shape[i] <= target.shape[i]

\* C1: when the shapes differ and the prediction is no larger than the ground
\* truth on any axis, the trimmed ground truth has the prediction's shape on
\* every axis and is the ground truth with floor((gt - pred) / 2) voxels
\* removed from each side.
C1_CenterCrop ==
    (Cropped /\ target.shape # pred.shape /\ PredNoLarger) =>
        /\ gt_data.shape = pred.shape
        /\ \A c \in Box(pred.shape) :
              gt_data.data[c] =
                  target.data[<<c[1] + (target.shape[1] - pred.shape[1]) \div 2,
                                c[2] + (target.shape[2] - pred.shape[2]) \div 2,
                                c[3] + (target.shape[3] - pred.shape[3]) \div 2>>]

\* the trim does what C1 says when every axis differs by an even, positive
\* number of voxels
CropEvenDifferences ==
    (Cropped /\ \A i \in Axes : /\ target.shape[i] - pred.shape[i] >= 2
                                 /\ (target.shape[i] - pred.shape[i]) % 2 = 0) =>
        gt_data.shape = pred.shape

\* C2: the scored labels are exactly the distinct values of the trimmed
\* ground truth without the background label, whatever the prediction holds,
\* and the report has precision_l, recall_l and fscore_l for these labels l
\* and for no other.
C2_LabelSet ==
    Returned =>
        LET gtLabels == {gt_data.data[c] : c \in DOMAIN gt_data.data} \ Background
        IN  /\ Range(label_ids) = gtLabels
            /\ DOMAIN scores \ AverageKeys =
                   {Key(m, l) : m \in Metrics, l \in gtLabels}

\* a ground-truth label that the prediction does not hold is scored
C2_Witness ==
    /\ Returned
    /\ \E l \in Range(label_ids) :
          /\ l \notin Unique(pred)
          /\ Key("recall", l) \in DOMAIN scores
    /\ \E l \in Unique(pred) : l \notin Range(label_ids) /\ l \notin Background

\* C3: the reported precision of a label is tp / (tp + fp) when tp + fp > 0
\* and not-a-number when tp + fp = 0.
C3_Precision ==
    Returned =>
        \A l \in Range(label_ids) :
            LET tp == detection_scores[l][1]
                fp == detection_scores[l][2]
                v  == scores[Key("precision", l)]
            IN  IF tp + fp > 0 THEN IsFraction(v, tp, tp + fp) ELSE v = NaN

C3_Witness ==
    /\ Returned
    /\ \E l \in Range(label_ids) :
          detection_scores[l][1] + detection_scores[l][2] = 0
    /\ \E l \in Range(label_ids) :
          detection_scores[l][1] = 1 /\ detection_scores[l][2] = 1

\* C4: the reported recall of a label is tp / (tp + fn) when tp + fn > 0 and
\* not-a-number when tp + fn = 0.
C4_Recall ==
    Returned =>
        \A l \in Range(label_ids) :
            LET tp == detection_scores[l][1]
                fn == detection_scores[l][3]
                v  == scores[Key("recall", l)]
            IN  IF tp + fn > 0 THEN IsFraction(v, tp, tp + fn) ELSE v = NaN

C4_Witness ==
    /\ Returned
    /\ \E l \in Range(label_ids) :
          detection_scores[l][1] + detection_scores[l][3] = 0
    /\ \E l \in Range(label_ids) :
          detection_scores[l][1] = 1 /\ detection_scores[l][3] = 1

\* C5: the reported fscore of a label is 2 * precision * recall /
\* (precision + recall) when both are numbers and their sum is positive, and
\* not-a-number when the sum is zero or either of them is not-a-number.
C5_Fscore ==
    Returned =>
        \A l \in Range(label_ids) :
            LET p == scores[Key("precision", l)]
                r == scores[Key("recall", l)]
                f == scores[Key("fscore", l)]
            IN  IF ~IsNaN(p) /\ ~IsNaN(r) /\ p[1] * r[2] + r[1] * p[2] > 0
                THEN IsFraction(f, 2 * p[1] * r[1], p[1] * r[2] + r[1] * p[2])
                ELSE f = NaN

\* one label with precision = recall = 0, one with a not-a-number precision
\* and a recall that is a number, one with a proper fraction as fscore
C5_Witness ==
    /\ Returned
    /\ \E l \in Range(label_ids) :
          /\ scores[Key("precision", l)] = <<0, 1>>
          /\ scores[Key("recall", l)] = <<0, 1>>
    /\ \E l \in Range(label_ids) :
          /\ IsNaN(scores[Key("precision", l)])
          /\ ~IsNaN(scores[Key("recall", l)])

\* the sum of the fractions f[x], x in S, as an unreduced fraction
RECURSIVE FractionSum(_, _)
FractionSum(S, f) ==
    IF S = {} THEN <<0, 1>>
    ELSE LET x    == CHOOSE y \in S : TRUE
             rest == FractionSum(S \ {x}, f)
         IN  <<f[x][1] * rest[2] + rest[1] * f[x][2], f[x][2] * rest[2]>>

\* C6: with at least one scored label, each average is the sum of the
\* per-label values divided by the number of scored labels, and it is
\* not-a-number as soon as one per-label value is.
C6_Averages ==
    (Returned /\ Len(label_ids) >= 1) =>
        \A m \in Metrics :
            LET val == [l \in Range(label_ids) |-> scores[Key(m, l)]]
                avg == scores[m \o "_average"]
                sum == FractionSum(Range(label_ids), val)
            IN  IF \E l \in Range(label_ids) : IsNaN(val[l])
                THEN avg = NaN
                ELSE IsFraction(avg, sum[1], sum[2] * Len(label_ids))

\* two labels, the precision of one a number and of the other not-a-number
C6_Witness ==
    /\ Returned
    /\ Len(label_ids) = 2
    /\ scores[Key("precision", label_ids[1])] = <<1, 2>>
    /\ IsNaN(scores[Key("precision", label_ids[2])])
    /\ scores[Key("recall", label_ids[2])] = <<0, 1>>
    /\ scores["precision_average"] = NaN
    /\ ~IsNaN(scores["recall_average"])

\* C7: a ground truth with no label but the background label gives a report
\* without any key; a ground truth with some other label gives a report with
\* the three average keys.
C7_AverageKeys ==
    Returned =>
        LET gtLabels == {gt_data.data[c] : c \in DOMAIN gt_data.data} \ Background
        IN  IF gtLabels = {}
            THEN DOMAIN scores = {}
            ELSE AverageKeys \subseteq DOMAIN scores

\* a ground truth that holds voxels, all of them background
C7_Witness ==
    /\ Returned
    /\ DOMAIN gt_data.data # {}
    /\ target.shape = pred.shape
    /\ \A c \in DOMAIN gt_data.data : gt_data.data[c] \in Background
    /\ scores = <<>>

\* C8: a label with tp = 0, fp = 0 and fn >= 1 has a not-a-number precision,
\* recall 0.0 and a not-a-number fscore.
C8_NothingPredicted ==
    Returned =>
        \A l \in Range(label_ids) :
            (/\ detection_scores[l][1] = 0
             /\ detection_scores[l][2] = 0
             /\ detection_scores[l][3] >= 1) =>
                /\ scores[Key("precision", l)] = NaN
                /\ scores[Key("recall", l)] = <<0, 1>>
                /\ scores[Key("fscore", l)] = NaN

\* a ground-truth label that the prediction does not hold at all, with all
\* its instances counted as false negatives
C8_Witness ==
    /\ Returned
    /\ target.shape = pred.shape
    /\ \E l \in Range(label_ids) :
          /\ l \notin Unique(pred)
          /\ detection_scores[l] = <<0, 0, 2>>

-----------------------------------------------------------------------------
(* The matcher's contract (DetectionMatcher): instances are the connected
   regions of one label; a predicted and a ground-truth instance match when
   they share at least `threshold` voxels; matching is one-to-one and
   maximal. *)

\* the six face neighbours of a voxel
Neighbours(c) ==
    { <<c[1] - 1, c[2], c[3]>>, <<c[1] + 1, c[2], c[3]>>,
      <<c[1], c[2] - 1, c[3]>>, <<c[1], c[2] + 1, c[3]>>,
      <<c[1], c[2], c[3] - 1>>, <<c[1], c[2], c[3] + 1>> }

\* the connected region of S around comp, grown from its frontier
RECURSIVE Grow(_, _, _)
Grow(comp, frontier, S) ==
    LET next == (UNION {Neighbours(c) : c \in frontier} \cap S) \ comp
    IN  IF next = {} THEN comp ELSE Grow(comp \cup next, next, S)

RECURSIVE Components(_)
Components(S) ==
    IF S = {} THEN {}
    ELSE LET seed == CHOOSE c \in S : TRUE
             comp == Grow({seed}, {seed}, S)
         IN  {comp} \cup Components(S \ comp)

\* the instances of label l in array a
Instances(a, l) == Components({c \in DOMAIN a.data : a.data[c] = l})

\* the default matching_threshold of score_prediction
MatchingThreshold == 1

\* the size of a largest one-to-one matching among the pairs E
MaxMatching(E) ==
    LET matchings == {M \in SUBSET E :
                         \A e1 \in M, e2 \in M :
                             (e1[1] = e2[1] \/ e1[2] = e2[2]) => e1 = e2}
    IN  CHOOSE k \in 0..Cardinality(E) :
            /\ \E M \in matchings : Cardinality(M) = k
            /\ \A M \in matchings : Cardinality(M) <= k

\* <<tp, fp, fn>> of label l under the overlap rule
MatchRecord(gt, pr, l) ==
    LET G  == Instances(gt, l)
        T  == Instances(pr, l)
        E  == {e \in G \X T : Cardinality(e[1] \cap e[2]) >= MatchingThreshold}
        tp == MaxMatching(E)
    IN  <<tp, Cardinality(T) - tp, Cardinality(G) - tp>>

\* the prediction equals the trimmed ground truth and the matcher answered
\* as its contract says
IdenticalAndMatched ==
    /\ Returned
    /\ Len(label_ids) >= 1
    /\ gt_data.shape = pred.shape
    /\ gt_data.data = pred.data
    /\ \A l \in Range(label_ids) :
          detection_scores[l] = MatchRecord(gt_data, pred, l)

\* C9: when the prediction equals the ground truth, every label has
\* fp = fn = 0 and tp equal to its number of instances, every per-label
\* precision, recall and fscore is 1.0 and so are the three averages.
C9_PerfectPrediction ==
    IdenticalAndMatched =>
        /\ \A l \in Range(label_ids) :
              /\ detection_scores[l] = <<Cardinality(Instances(gt_data, l)), 0, 0>>
              /\ detection_scores[l][1] >= 1
              /\ \A m \in Metrics : scores[Key(m, l)] = <<1, 1>>
        /\ \A k \in AverageKeys : scores[k] = <<1, 1>>

\* a prediction equal to a ground truth with two labels
C9_Witness ==
    /\ IdenticalAndMatched
    /\ Len(label_ids) = 2
    /\ Background # {}

-----------------------------------------------------------------------------
(* Properties of Prediction *)

\* the extent of the raw volume along the spatial axis z, y or x (1, 2, 3):
\* the last three axes of the raw array
VolumeExtent(axis) == raw_shape[Len(raw_shape) - 3 + axis]

\* C10: on each of the three axes, predict_shape is the larger of the input
\* tile's extent and the volume's extent, so it is never smaller than the
\* input tile and never smaller than the volume.
C10_PredictShape ==
    ppc = "ready" =>
        \A axis \in Axes :
            /\ P.predict_shape[axis] >= input_shape[axis]
            /\ P.predict_shape[axis] >= VolumeExtent(axis)
            /\ P.predict_shape[axis] \in {input_shape[axis], VolumeExtent(axis)}

\* for a raw array without a channel axis the shape is as C10 says
PredictShapeThreeAxes ==
    (ppc = "ready" /\ Len(raw_shape) = 3) =>
        \A axis \in Axes :
            /\ P.predict_shape[axis] >= input_shape[axis]
            /\ P.predict_shape[axis] >= raw_shape[axis]
            /\ P.predict_shape[axis] \in {input_shape[axis], raw_shape[axis]}

-----------------------------------------------------------------------------
(* Properties of predict_pipeline *)

PipelineReturned == qpc = "returned"

\* C11: the prediction that predict_pipeline returns has, on every axis,
\* predict_shape minus twice the border voxels, and it was requested as
\* predict_size minus twice border_size; for the (10,10,10) volume with
\* input tiles of (10,10,10) and outputs of (6,6,6) the shape for prediction
\* is (10,10,10) and the returned prediction has (6,6,6) voxels.
C11_PredictionExtent ==
    PipelineReturned =>
        /\ \A i \in Axes :
              /\ ret.prediction[i] = P.predict_shape[i] - 2 * P.border[i]
              /\ total_request.prediction.shape[i]
                    = P.predict_size[i] - 2 * P.border_size[i]
              /\ ret.prediction[i] * voxel_size[i]
                    = total_request.prediction.shape[i]
        /\ (/\ raw_shape = <<10, 10, 10>>
            /\ input_shape = <<10, 10, 10>>
            /\ P.output_shape = <<6, 6, 6>>)
           => /\ P.border = <<2, 2, 2>>
              /\ P.predict_shape = <<10, 10, 10>>
              /\ ret.prediction = <<6, 6, 6>>

\* the worked example has returned
C11_Witness ==
    /\ PipelineReturned
    /\ raw_shape = <<10, 10, 10>>
    /\ input_shape = <<10, 10, 10>>
    /\ P.output_shape = <<6, 6, 6>>
    /\ ret.prediction = <<6, 6, 6>>

\* the tiles of the scan, as requests
Tiles == {TileRequest(scan_request, shifts[n]) : n \in 1..Len(shifts)}

Scanning == qpc \in {"scanning", "returned", "raised"}

\* a ROI lies inside another
Inside(part, whole) ==
    \A i \in Axes :
        /\ part.offset[i] >= whole.offset[i]
        /\ part.offset[i] + part.shape[i] <= whole.offset[i] + whole.shape[i]

\* the extent of the requested prediction is a whole number of output tiles
\* on every axis
WholeTiles ==
    \A i \in Axes :
        (P.predict_shape[i] - 2 * P.border[i]) % P.output_shape[i] = 0

TilesAlong(i) == Cardinality({shifts[n][i] : n \in 1..Len(shifts)})

\* a / b rounded up, for a >= 0 and b > 0
CeilDiv(a, b) == (a + b - 1) \div b

Resolved == ppc = "ready"

\* C14: whenever the shapes are resolved, on every axis the output extent is
\* the input extent minus twice the border and the border is a non-negative
\* integer; the Prediction stores these values, and the tiles of the scan and
\* the total request are made from them.
C14_OutputIsInputLessBorders ==
    /\ Resolved =>
          \A i \in Axes :
              /\ P.border[i] \in Nat
              /\ P.output_shape[i] = input_shape[i] - 2 * P.border[i]
              /\ P.output_size[i] = voxel_size[i] * P.output_shape[i]
              /\ P.border_size[i] = voxel_size[i] * P.border[i]
    /\ Scanning =>
          \A i \in Axes :
              /\ scan_request.raw.shape[i] = voxel_size[i] * input_shape[i]
              /\ scan_request.prediction.shape[i]
                    = voxel_size[i] * (input_shape[i] - 2 * P.border[i])
              /\ scan_request.prediction.offset[i] - scan_request.raw.offset[i]
                    = voxel_size[i] * P.border[i]
              /\ total_request.prediction.shape[i]
                    = voxel_size[i] * (P.predict_shape[i] - 2 * P.border[i])
              /\ total_request.prediction.offset[i] - total_request.raw.offset[i]
                    = voxel_size[i] * P.border[i]

\* a scan made from a resolved border that is not zero
C14_Witness ==
    /\ Resolved
    /\ Scanning
    /\ \E i \in Axes : P.border[i] > 0
    /\ \E i \in Axes : P.border[i] = 0

\* the input tile and the model are ones the resolver cannot serve: the
\* shape function raises, or on some axis the output extent is not positive
\* or differs from the input extent by an odd number
Unresolvable ==
    \/ model.raises
    \/ \E i \in Axes :
          \/ input_shape[i] - model.loss[i] <= 0
          \/ (input_shape[i] - (input_shape[i] - model.loss[i])) % 2 = 1

\* C15: when the difference of input and output extent is odd on some axis,
\* or the model's shape function raises or gives an output extent that is
\* not positive, the construction fails with a ShapeError: no border is
\* stored, rounded or otherwise, and no tile is requested or scanned.
C15_ShapeError ==
    (Unresolvable /\ ppc # "new") =>
        /\ ppc = "raised"
        /\ perror = "ShapeError"
        /\ P = <<>>
        /\ PipelineIdle

\* a construction that failed on an odd difference alone
C15_Witness ==
    /\ ppc = "raised"
    /\ perror = "ShapeError"
    /\ ~model.raises
    /\ \A i \in Axes : input_shape[i] > model.loss[i]
    /\ \E i \in Axes : model.loss[i] % 2 = 1

\* C16: when the model raises on a tile, predict_pipeline fails as a whole:
\* nothing is returned, whatever part of the prediction had been assembled;
\* a batch is returned only after every tile has been evaluated.
C16_NoPartialPrediction ==
    /\ qpc = "raised" => (ret = <<>> /\ done < Len(shifts))
    /\ ret # <<>> => (PipelineReturned /\ done = Len(shifts))

\* the model raised after some tiles had been written
C16_Witness ==
    /\ qpc = "raised"
    /\ done > 0
    /\ \E c \in DOMAIN writes : writes[c] > 0
    /\ \E c \in DOMAIN writes : writes[c] = 0

-----------------------------------------------------------------------------
(* Properties of EMData.__init__ *)

\* the raw data's attributes are not the required ones
RawAttributesWrong ==
    \/ "resolution" \notin DOMAIN store.raw_attrs
    \/ "axes" \notin DOMAIN store.raw_attrs
    \/ store.raw_attrs.axes # <<"z", "y", "x">>

\* the ground truth lacks a required attribute
GtAttributesMissing ==
    /\ TrainOrValidate(store)
    /\ \/ "resolution" \notin DOMAIN store.gt_attrs
       \/ "background_label" \notin DOMAIN store.gt_attrs

\* C17: the construction of an EMData fails with an error when the raw data
\* has no resolution, has no axes or has axes other than (z, y, x), and, in
\* the train and validate modes, when the ground truth has no resolution or
\* no background_label, or when an attribute of the raw data differs from
\* the ground truth's attribute of the same name.
C17_AttributeErrors ==
    (dpc # "new" /\ (\/ RawAttributesWrong
                     \/ GtAttributesMissing
                     \/ TrainOrValidate(store) /\ AttributeMismatch(store)))
        => (dpc = "raised" /\ derror # "none" /\ D = <<>>)

\* what the construction does check: the three cases of the raw data's
\* attributes and a differing attribute fail it
AttributeErrorsChecked ==
    (dpc # "new" /\ (\/ RawAttributesWrong
                     \/ TrainOrValidate(store) /\ AttributeMismatch(store)))
        => (dpc = "raised" /\ derror # "none" /\ D = <<>>)

-----------------------------------------------------------------------------
(* Properties of score_prediction: missing attributes, zero counts *)

\* C18: when the ground truth has no background_label attribute (and has a
\* resolution), score_prediction filters no label out: it does not fail on
\* the missing attribute, and when it returns, every distinct value of the
\* ground truth has been scored.
C18_NoBackgroundAttribute ==
    (/\ pc # "call"
     /\ "resolution" \in DOMAIN target.attrs
     /\ "background_label" \notin DOMAIN target.attrs)
        => /\ error # "KeyError"
           /\ Returned => Range(label_ids) = Unique(gt_data)

\* a label whose counts make a denominator zero
ZeroDenominator(l) ==
    \/ detection_scores[l][1] + detection_scores[l][2] = 0
    \/ detection_scores[l][1] + detection_scores[l][3] = 0
    \/ detection_scores[l][1] = 0

\* C19: whatever counts the matcher reports, the report is computed without
\* an arithmetic error: no division by zero is raised; a precision without
\* predicted instances, a recall without relevant instances and an fscore
\* whose precision and recall are undefined or sum to zero are not-a-number;
\* and every key of every scored label and the three averages are in the
\* report all the same.
C19_NoArithmeticError ==
    /\ error # "ZeroDivisionError"
    /\ (pc = "raised" => error \in {"KeyError", "MatcherError"})
    /\ Returned =>
          /\ \A k \in DOMAIN scores : ~Raises(scores[k])
          /\ \A i \in 1..Len(label_ids) :
                LET l  == label_ids[i]
                    tp == detection_scores[l][1]
                    fp == detection_scores[l][2]
                    fn == detection_scores[l][3]
                IN  /\ \A m \in Metrics : Key(m, l) \in DOMAIN scores
                    /\ tp + fp = 0 => IsNaN(scores[Key("precision", l)])
                    /\ tp + fn = 0 => IsNaN(scores[Key("recall", l)])
                    /\ ZeroDenominator(l) => IsNaN(scores[Key("fscore", l)])
          /\ Len(label_ids) >= 1 => AverageKeys \subseteq DOMAIN scores

\* a report of two labels, one with all counts zero and one whose precision
\* and recall are both 0.0
C19_Witness ==
    /\ Returned
    /\ Len(label_ids) = 2
    /\ detection_scores[label_ids[1]] = <<0, 0, 0>>
    /\ detection_scores[label_ids[2]] = <<0, 1, 1>>
    /\ scores[Key("precision", label_ids[2])] = FromInt(0)
    /\ IsNaN(scores[Key("fscore", label_ids[2])])

-----------------------------------------------------------------------------
(* Properties of Run.run_training *)

\* the tag best_scores records for a validation
IterationTag(v) == "Iteration " \o ToString(v.iteration)

\* C20 as stated, in the states of a run: no score of a validation so far is
\* greater than the stored best score of its name, a stored best score is
\* never not-a-number, best_validations[k], when present, is the validation
\* of the iteration recorded in best_scores[k] and has a checkpoint, and
\* every score key of every validation is a key of best_scores, so that the
\* update has not failed on an unknown key.
C20_BestScores ==
    tpc \notin {"idle", "new"} =>
        /\ terror # "KeyError"
        /\ \A n \in 1..Len(validations) :
              DOMAIN validations[n].scores \subseteq DOMAIN best_scores
        /\ \A k \in DOMAIN best_scores :
              /\ ~IsNaN(best_scores[k][1])
              /\ \A n \in 1..Len(validations) :
                    k \in DOMAIN validations[n].scores
                       => ~FGreater(validations[n].scores[k], best_scores[k][1])
        /\ \A k \in DOMAIN best_validations :
              /\ best_scores[k][2] = IterationTag(best_validations[k])
              /\ k \in DOMAIN checkpoints
              /\ checkpoints[k] = best_validations[k].iteration

\* what one step of a run does to the best scores
BestScoresStep ==
    LET round == validations' # validations
        v     == validations'[Len(validations')]
    IN  /\ DOMAIN best_scores' = ScoreNames
        /\ ~round => UNCHANGED <<best_validations, checkpoints>>
        /\ round =>
              /\ \A k \in ScoreNames :
                    /\ ~FGreater(best_scores[k][1], best_scores'[k][1])
                    /\ ~IsNaN(best_scores'[k][1])
                    /\ best_scores'[k] # best_scores[k] =>
                          /\ k \in DOMAIN v.scores
                          /\ FGreater(v.scores[k], best_scores[k][1])
                          /\ best_scores'[k] = <<v.scores[k], IterationTag(v)>>
                          /\ k \in DOMAIN best_validations'
                          /\ best_validations'[k] = v
                          /\ k \in DOMAIN checkpoints'
                          /\ checkpoints'[k] = v.iteration
                    /\ best_scores'[k] = best_scores[k] =>
                          /\ (k \in DOMAIN best_validations'
                                <=> k \in DOMAIN best_validations)
                          /\ k \in DOMAIN best_validations
                                => best_validations'[k] = best_validations[k]
                          /\ (k \in DOMAIN checkpoints' <=> k \in DOMAIN checkpoints)
                          /\ k \in DOMAIN checkpoints
                                => checkpoints'[k] = checkpoints[k]
                    /\ k \in DOMAIN best_validations'
                          => best_scores'[k][2] = IterationTag(best_validations'[k])
              /\ terror' = "KeyError" <=> ~(DOMAIN v.scores \subseteq ScoreNames)
              /\ terror' = "none" =>
                    \A k \in DOMAIN v.scores :
                        FGreater(v.scores[k], best_scores[k][1])
                           => best_scores'[k] = <<v.scores[k], IterationTag(v)>>

\* C20 amended: in every validation round, periodic or final, and for every
\* score name k of best_scores, the stored best score does not decrease and
\* is never not-a-number; it is replaced only by a strictly greater score of
\* the round, and in exactly the rounds where it is replaced the round's
\* validation is stored in best_validations[k] and a checkpoint is saved
\* for k, so that best_validations[k], when present, is the validation of
\* the iteration recorded in best_scores[k]; a round whose score keys are all
\* keys of best_scores replaces every best score that the round exceeds, and
\* a round with any other score key raises KeyError and ends the run.
C20_BestScoresStep == [][BestScoresStep]_vars

\* a finished run of three validations: a best score set in the second is
\* kept through a third that scored not-a-number under the same name
C20_Witness ==
    /\ tpc = "finished"
    /\ Len(validations) = 3
    /\ \E k \in DOMAIN best_validations :
          /\ best_validations[k] = validations[2]
          /\ k \in DOMAIN validations[1].scores
          /\ k \in DOMAIN validations[3].scores
          /\ IsNaN(validations[3].scores[k])

-----------------------------------------------------------------------------
(* Properties of EMData.create_target and has_target *)

Targeted == dpc = "targeted"

LargerOf(a, b) == IF a >= b THEN a ELSE b

\* the shape covers the configured input shape on every axis
CoversInput(shape) == \A i \in Axes : shape[i] >= store.config_input_shape[i]

\* C21: after create_target the target covers the configured input shape on
\* every axis: an axis of the ground truth shorter than the input is padded
\* with zeros at its end up to the input's extent, any other axis is left as
\* it is, and the ground truth is copied unchanged; and after __init__
\* has_target is true only for an existing target that covers the input
\* shape on every axis.
C21_TargetCoversInput ==
    /\ Targeted =>
          /\ CoversInput(target_data.shape)
          /\ \A i \in Axes :
                target_data.shape[i]
                   = LargerOf(store.gt_shape[i], store.config_input_shape[i])
          /\ \A c \in DOMAIN target_data.data :
                target_data.data[c]
                   = IF c \in Box(store.gt_shape) THEN GtArray(store).data[c] ELSE 0
    /\ (dpc = "constructed" /\ TrainOrValidate(store) /\ D.has_target) =>
          /\ store.target # <<>>
          /\ CoversInput(store.target)

\* what create_target does achieve: a ground truth whose first axis is
\* shorter than the input's is padded to cover the input on every axis, a
\* ground truth that covers the input is copied as it is, and in every case
\* the ground truth is kept at the start of the target and the rest is zero
PaddedWhenFirstAxisShorter ==
    Targeted =>
        /\ store.gt_shape[1] < store.config_input_shape[1]
              => \A i \in Axes :
                    target_data.shape[i]
                       = LargerOf(store.gt_shape[i], store.config_input_shape[i])
        /\ CoversInput(store.gt_shape) => target_data = GtArray(store)
        /\ \A c \in DOMAIN target_data.data :
              target_data.data[c]
                 = IF c \in Box(store.gt_shape) THEN GtArray(store).data[c] ELSE 0

====
